---- MODULE Spec2Model ----
(***************************************************************************)
(* State-machine model of game-tracker: the process snapshot tree, the     *)
(* game matching, the session accounting of GamingTracker::refresh, the    *)
(* subtasks and the scheduler loop driven by main.                         *)
(*                                                                         *)
(* Representation.                                                         *)
(*  - A string is a sequence of one-character strings, so that             *)
(*    str::contains is a real substring test.                              *)
(*  - An OS process (sysinfo::Process) is a record                          *)
(*    [pid, parent, name, cmd, run_time, start_time]; parent = NoPid is    *)
(*    Process::parent() = None.                                            *)
(*  - A ProcessTree is a function from the pids of one level to            *)
(*    ProcessInfo records; the children field of a ProcessInfo is again    *)
(*    such a function, the empty function standing for None.               *)
(*  - A HashSet<ProcessInfo> is a set of ProcessInfo records without       *)
(*    their children (never read once stored) in which no two members      *)
(*    are equal under PartialEq, i.e. share (pid, cmd, name).              *)
(*  - Time is counted in scan intervals; DayLen of them make a day.        *)
(***************************************************************************)
EXTENDS Integers, Sequences, FiniteSets, TLC

\* ------------------------------------------------------------------------
\* Bounds of the model
\* ------------------------------------------------------------------------
MaxRunTime == 2
MaxTicks == 2
DayLen == 2
MaxTreePid == 4

\* ------------------------------------------------------------------------
\* Program constants
\* ------------------------------------------------------------------------
NoPid == 0
InitPid == 1
TamperingLimit == 5

\* ------------------------------------------------------------------------
\* Generic helpers
\* ------------------------------------------------------------------------
Min(S) == CHOOSE x \in S : \A y \in S : x <= y

EmptyTree == << >>

\* str::contains: needle occurs as a contiguous substring of hay
StrContains(hay, needle) ==
    \E i \in 0..(Len(hay) - Len(needle)) :
        SubSeq(hay, i + 1, i + Len(needle)) = needle

\* Vec<String>::join(" ")
RECURSIVE Join(_)
Join(v) ==
    IF v = << >> THEN << >>
    ELSE IF Len(v) = 1 THEN v[1]
    ELSE v[1] \o <<" ">> \o Join(Tail(v))

\* ------------------------------------------------------------------------
\* process_tree.rs: ProcessInfo
\* ------------------------------------------------------------------------
ProcessInfo_from(proc) ==
    [children |-> EmptyTree, name |-> proc.name, cmd |-> proc.cmd,
     run_time |-> proc.run_time, pid |-> proc.pid,
     start_time |-> proc.start_time]

\* impl PartialEq for ProcessInfo (Hash covers the same three fields)
ProcessInfo_eq(a, b) ==
    a.pid = b.pid /\ a.cmd = b.cmd /\ a.name = b.name

insert_child(node, pid, child) ==
    [node EXCEPT !.children = (pid :> child) @@ node.children]

cmd_contains(node, s) == StrContains(Join(node.cmd), s)

NodeMatches(node, s) == cmd_contains(node, s) \/ StrContains(node.name, s)

\* ProcessInfo::find: the node itself, else the first hit among the
\* children in ascending pid order (BTreeMap iteration). The result is
\* <<node>> for Some(node) and << >> for None.
\* variant: only the node and its direct children are looked at
find_shallow(node, s) == IF NodeMatches(node, s) THEN <<node>> ELSE IF \E n \in DOMAIN node.children : NodeMatches(node.children[n], s) THEN << node.children[Min({n \in DOMAIN node.children : NodeMatches(node.children[n], s)})] >> ELSE << >>

RECURSIVE find(_, _)
RECURSIVE find_in_children(_, _, _)
find(node, s) ==
    IF NodeMatches(node, s) THEN <<node>>
    ELSE find_in_children(node.children, DOMAIN node.children, s)

find_in_children(children, todo, s) ==
    IF todo = {} THEN << >>
    ELSE LET n == Min(todo)
             found == find(children[n], s)
         IN IF found # << >> THEN found
            ELSE find_in_children(children, todo \ {n}, s)

\* ------------------------------------------------------------------------
\* process_tree.rs: ProcessTree
\* ------------------------------------------------------------------------
\* ProcessTree::insert_process: [ok, tree]; ok is the returned bool.
RECURSIVE insert_process(_, _, _)
RECURSIVE insert_process_below(_, _, _, _)
insert_process(tree, proc, parent) ==
    IF parent \in DOMAIN tree
    THEN [ok |-> TRUE,
          tree |-> [tree EXCEPT ![parent] =
                       insert_child(@, proc.pid, ProcessInfo_from(proc))]]
    ELSE insert_process_below(tree, DOMAIN tree, proc, parent)

\* the loop over self.inner.values_mut(), ascending pid
insert_process_below(tree, todo, proc, parent) ==
    IF todo = {} THEN [ok |-> FALSE, tree |-> tree]
    ELSE LET n == Min(todo)
             sub == insert_process(tree[n].children, proc, parent)
         IN IF tree[n].children # EmptyTree /\ sub.ok
            THEN [ok |-> TRUE,
                  tree |-> [tree EXCEPT ![n].children = sub.tree]]
            ELSE insert_process_below(tree, todo \ {n}, proc, parent)

\* variant: a process whose parent is init is attached like any other
from_step_under_init(tree, process) == IF process.parent # NoPid THEN insert_process(tree, process, process.parent).tree ELSE (process.pid :> ProcessInfo_from(process)) @@ tree

\* One iteration of the for_each closure of ProcessTree::from. The bool
\* returned by insert_process is dropped by the code.
from_step(tree, process) ==
    IF process.parent # NoPid /\ process.parent # InitPid
    THEN insert_process(tree, process, process.parent).tree
    ELSE (process.pid :> ProcessInfo_from(process)) @@ tree

\* ProcessTree::from: the processes in ascending pid order
\* (BTreeMap::from_iter of the HashMap).
RECURSIVE from_loop(_, _, _)
from_loop(processes, todo, tree) ==
    IF todo = {} THEN tree
    ELSE LET pid == Min(todo)
         IN from_loop(processes, todo \ {pid},
                      from_step(tree, processes[pid]))

ProcessTree_from(processes) ==
    from_loop(processes, DOMAIN processes, EmptyTree)

\* ------------------------------------------------------------------------
\* Observers of a tree (used by the properties)
\* ------------------------------------------------------------------------
\* the nodes of the subtree of node in pre-order: the node, then the
\* subtrees of its children in ascending pid order
RECURSIVE PreOrder(_)
RECURSIVE PreOrderOf(_, _)
PreOrder(node) == <<node>> \o PreOrderOf(node.children, DOMAIN node.children)

PreOrderOf(children, todo) ==
    IF todo = {} THEN << >>
    ELSE PreOrder(children[Min(todo)]) \o PreOrderOf(children, todo \ {Min(todo)})

\* the first node of the subtree, in pre-order, whose name or joined
\* command line contains s
FirstMatch(node, s) ==
    LET hits == { i \in DOMAIN PreOrder(node) : NodeMatches(PreOrder(node)[i], s) }
    IN  IF hits = {} THEN << >> ELSE << PreOrder(node)[Min(hits)] >>

\* how many nodes of the tree carry this pid
RECURSIVE Occurrences(_, _)
RECURSIVE OccurrencesBelow(_, _, _)
Occurrences(tree, pid) ==
    (IF pid \in DOMAIN tree THEN 1 ELSE 0) +
    OccurrencesBelow(tree, DOMAIN tree, pid)

OccurrencesBelow(tree, todo, pid) ==
    IF todo = {} THEN 0
    ELSE LET n == Min(todo)
         IN Occurrences(tree[n].children, pid) +
            OccurrencesBelow(tree, todo \ {n}, pid)

\* child is a direct child of the node with pid parent, somewhere in tree
RECURSIVE IsChildOf(_, _, _)
IsChildOf(tree, child, parent) ==
    \/ parent \in DOMAIN tree /\ child \in DOMAIN tree[parent].children
    \/ \E n \in DOMAIN tree : IsChildOf(tree[n].children, child, parent)

\* ------------------------------------------------------------------------
\* Inputs: strings, configuration, process snapshots
\* ------------------------------------------------------------------------
GameA == <<"a">>
GameB == <<"b">>

\* installed_games after load_config: the platforms in BTreeMap (name)
\* order, each with the identifiers found on disk.
installed_games ==
    << [name |-> "p1", games |-> <<GameA>>],
       [name |-> "p2", games |-> <<GameB>>] >>

\* (name, cmd) of the processes the snapshots are drawn from: a process
\* named "ab" (contains both identifiers), a process whose command line
\* "z b" contains only GameB, and a process that is no game.
Shapes ==
    { [name |-> <<"a", "b">>, cmd |-> << >>],
      [name |-> <<"z">>, cmd |-> << <<"z">>, <<"b">> >>],
      [name |-> <<"z">>, cmd |-> << >>] }

\* every snapshot sysinfo can report over the given pids: a function from
\* the live pids to their processes; no process is its own parent
SnapshotsOf(pids, parents, shapes, runs) ==
    UNION {
      { f \in { [p \in live |->
                   [pid |-> p, parent |-> par[p], name |-> sh[p].name,
                    cmd |-> sh[p].cmd, run_time |-> rt[p], start_time |-> 0]]
                : par \in [live -> parents],
                  sh \in [live -> shapes], rt \in [live -> runs] } :
          \A p \in live : f[p].parent # p }
      : live \in SUBSET pids }

\* the snapshots of the scheduler specification: one pid, which a game,
\* another game or no game may hold
Snapshots == SnapshotsOf({2}, {NoPid}, Shapes, 1..MaxRunTime)

\* the snapshots of the tree specification: more pids, one run time
TreeShapes ==
    { [name |-> <<"a", "b">>, cmd |-> << >>],
      [name |-> <<"z">>, cmd |-> << >>] }

\* init is alive in every snapshot of the tree specification
InitProcess ==
    [pid |-> InitPid, parent |-> NoPid, name |-> <<"z">>, cmd |-> << >>,
     run_time |-> 0, start_time |-> 0]

TreeSnapshots ==
    { (InitPid :> InitProcess) @@ s :
        s \in SnapshotsOf((InitPid + 1)..MaxTreePid,
                          {NoPid} \cup (InitPid..MaxTreePid), TreeShapes, {0}) }

\* ------------------------------------------------------------------------
\* session.rs: DailyGamingSession.  An Option is << >> (None) or <<v>>.
\* ------------------------------------------------------------------------
\* calculate_end_of_day: midnight of the day after `day`; valid = FALSE is
\* and_hms_opt returning None (CalculateEndOfDayError), result << >>.
calculate_end_of_day(day, valid) ==
    IF valid THEN << ((day \div DayLen) + 1) * DayLen >> ELSE << >>

\* DailyGamingSession::from_duration (through DailyGamingSession::new)
from_duration(duration, now) ==
    [start_time |-> now,
     end_of_day |-> calculate_end_of_day(now, TRUE)[1],
     session_ended |-> FALSE,
     duration |-> duration]

\* variant: the budget comparison made strict
should_session_end_strict(session, time_played) ==
    session.duration < time_played

should_session_end(session, time_played) ==
    session.duration <= time_played

day_ended(session) ==
    session.start_time >= session.end_of_day

is_session_ended(session) == session.session_ended

\* variant: the flag is left alone
end_session_skipped(session) == session

end_session(session) == [session EXCEPT !.session_ended = TRUE]

\* variant: start_time keeps the value of the day before
restart_session_keeping_start(session, now, valid) == IF valid THEN [err |-> "Ok", session |-> [session EXCEPT !.session_ended = FALSE, !.end_of_day = calculate_end_of_day(now, valid)[1]]] ELSE [err |-> "CalculateEndOfDayError", session |-> [session EXCEPT !.session_ended = FALSE]]

\* restart_session: [err, session]; the first two assignments are made
\* before the end-of-day computation can fail.
restart_session(session, now, valid) ==
    LET s1 == [session EXCEPT !.start_time = now, !.session_ended = FALSE]
        eod == calculate_end_of_day(now, valid)
    IN IF eod = << >>
       THEN [err |-> "CalculateEndOfDayError", session |-> s1]
       ELSE [err |-> "Ok", session |-> [s1 EXCEPT !.end_of_day = eod[1]]]

\* tracker.rs:213 calls is_passed_midnight, tracker.rs:217 is_session_over.
\* session.rs defines neither under that name. is_session_over is taken
\* to be should_session_end (same signature, the budget comparison);
\* is_passed_midnight is the day-rollover test "now is at or past the
\* stored end-of-day instant".
is_passed_midnight(session, now) == now >= session.end_of_day

is_session_over(session, time_played) ==
    should_session_end(session, time_played)

\* ------------------------------------------------------------------------
\* tracker.rs: GamingTracker
\* ------------------------------------------------------------------------
\* the identifiers in the order find_game tries them: platform by
\* platform, within a platform in Vec order
RECURSIVE IdentifierOrder(_)
IdentifierOrder(platforms) ==
    IF platforms = << >> THEN << >>
    ELSE Head(platforms).games \o IdentifierOrder(Tail(platforms))

RECURSIVE find_game_from(_, _, _)
find_game_from(p, names, i) ==
    IF i > Len(names) THEN << >>
    ELSE LET process == find(p, names[i])
         IN IF process # << >>
            THEN << [game_name |-> names[i], process |-> process[1]] >>
            ELSE find_game_from(p, names, i + 1)

\* variant: the identifiers are tried last to first
find_game_reversed(p, games) == find_game_from(p, [i \in DOMAIN IdentifierOrder(games) |-> IdentifierOrder(games)[Len(IdentifierOrder(games)) + 1 - i]], 1)

\* find_game: Some((name, process)) of the first identifier that hits
find_game(p, games) == find_game_from(p, IdentifierOrder(games), 1)

\* HashSet::contains / remove / insert under ProcessInfo's Eq
HashSet_contains(set, x) == \E y \in set : ProcessInfo_eq(y, x)

\* variant: the stale record is not removed before the insert
HashSet_remove_kept(set, x) == set

HashSet_remove(set, x) == { y \in set : ~ProcessInfo_eq(y, x) }

HashSet_insert(set, x) == IF HashSet_contains(set, x) THEN set ELSE set \cup {x}

\* the clone stored in the set; its children are never read again
StoredClone(node) == [node EXCEPT !.children = EmptyTree]

\* variant: the hit is recorded under every identifier it matches
track_process_every_match(games, process) == LET hit == find_game(process, installed_games) IN IF hit = << >> THEN games ELSE [g \in DOMAIN games \cup { IdentifierOrder(installed_games)[i] : i \in { k \in DOMAIN IdentifierOrder(installed_games) : NodeMatches(hit[1].process, IdentifierOrder(installed_games)[k]) } } |-> IF NodeMatches(hit[1].process, g) THEN { y \in (IF g \in DOMAIN games THEN games[g] ELSE {}) : ~ProcessInfo_eq(y, hit[1].process) } \cup { StoredClone(hit[1].process) } ELSE games[g]]

\* body of the loop of update_running_games for one root of the tree
track_process(games, process) ==
    LET hit == find_game(process, installed_games)
    IN IF hit = << >> THEN games
       ELSE LET game_name == hit[1].game_name
                game_process == hit[1].process
                running_games == IF game_name \in DOMAIN games
                                 THEN games[game_name] ELSE {}
                removed == IF HashSet_contains(running_games, game_process)
                           THEN HashSet_remove(running_games, game_process)
                           ELSE running_games
            IN (game_name :> HashSet_insert(removed, StoredClone(game_process)))
               @@ games

\* update_running_games: the roots of process_snapshots, ascending pid
RECURSIVE update_running_games_from(_, _, _)
update_running_games_from(games, snapshots, todo) ==
    IF todo = {} THEN games
    ELSE LET pid == Min(todo)
         IN update_running_games_from(track_process(games, snapshots[pid]),
                                      snapshots, todo \ {pid})

\* variant: the records of processes that are no root of the tree are
\* dropped first
update_running_games_pruned(games, snapshots) == update_running_games_from([g \in DOMAIN games |-> { x \in games[g] : x.pid \in DOMAIN snapshots }], snapshots, DOMAIN snapshots)

update_running_games(games, snapshots) ==
    update_running_games_from(games, snapshots, DOMAIN snapshots)

\* all (game, record) pairs of games_found
TrackedPairs(games) ==
    UNION { { [game |-> g, proc |-> r] : r \in games[g] } : g \in DOMAIN games }

RECURSIVE SumRunTime(_)
SumRunTime(pairs) ==
    IF pairs = {} THEN 0
    ELSE LET x == CHOOSE y \in pairs : TRUE
         IN x.proc.run_time + SumRunTime(pairs \ {x})

total_time_played(games) == SumRunTime(TrackedPairs(games))

\* variant: the guard trips at the limit already
check_tampering_at_limit(ret, elapsed) == IF elapsed >= TamperingLimit THEN "TamperingDetected" ELSE ret

\* the #[check_tampering] wrapper: the operation's own result unless it
\* took more than TamperingLimit whole seconds
check_tampering(ret, elapsed) ==
    IF elapsed > TamperingLimit THEN "TamperingDetected" ELSE ret

\* variant: a refresh without a session creates one of budget zero
refresh_session_creating(session, time_played, now, valid) == IF session = << >> THEN [err |-> "Ok", session |-> <<from_duration(0, now)>>] ELSE [err |-> "Ok", session |-> session]

\* variant: the budget test clears the flag when the budget is not used up
refresh_session_clearing(session, time_played, now, valid) == IF session = << >> THEN [err |-> "Ok", session |-> session] ELSE IF is_session_over(session[1], time_played) THEN [err |-> "Ok", session |-> <<end_session(session[1])>>] ELSE [err |-> "Ok", session |-> <<[session[1] EXCEPT !.session_ended = FALSE]>>]

\* the session part of refresh (tracker.rs:211-222): [err, session]
refresh_session(session, time_played, now, valid) ==
    IF session = << >> THEN [err |-> "Ok", session |-> session]
    ELSE LET restarted ==
                 IF is_passed_midnight(session[1], now)
                 THEN restart_session(session[1], now, valid)
                 ELSE [err |-> "Ok", session |-> session[1]]
         IN IF restarted.err # "Ok"
            THEN [err |-> restarted.err, session |-> <<restarted.session>>]
            ELSE IF is_session_over(restarted.session, time_played)
            THEN [err |-> "Ok", session |-> <<end_session(restarted.session)>>]
            ELSE [err |-> "Ok", session |-> <<restarted.session>>]

\* GamingTracker::refresh: [err, system_processes, process_snapshots,
\* games, session]. The state is updated whatever the result.
refresh(games, session, snapshot, now, valid, elapsed) ==
    LET tree == ProcessTree_from(snapshot)
        found == update_running_games(games, tree)
        after == refresh_session(session, total_time_played(found), now, valid)
    IN [err |-> check_tampering(after.err, elapsed),
        system_processes |-> snapshot,
        process_snapshots |-> tree,
        games |-> found,
        session |-> after.session]

\* GamingTracker::kill: the signal goes to whatever process holds the pid
\* in the last snapshot; none is sent when the pid is gone.
kill(processes, p, elapsed) ==
    [err |-> check_tampering("Ok", elapsed),
     signal |-> IF p.pid \in DOMAIN processes THEN {p.pid} ELSE {}]

\* ------------------------------------------------------------------------
\* Iteration over games_found: BTreeMap order of the game names, any
\* order inside a HashSet
\* ------------------------------------------------------------------------
CharCode == [c \in {" ", "a", "b", "z"} |->
                CASE c = " " -> 32 [] c = "a" -> 97 [] c = "b" -> 98
                  [] c = "z" -> 122]

RECURSIVE StrLess(_, _)
StrLess(x, y) ==
    IF y = << >> THEN FALSE
    ELSE IF x = << >> THEN TRUE
    ELSE IF CharCode[Head(x)] # CharCode[Head(y)]
         THEN CharCode[Head(x)] < CharCode[Head(y)]
    ELSE StrLess(Tail(x), Tail(y))

IterOrders(games) ==
    LET pairs == TrackedPairs(games)
    IN { o \in [1..Cardinality(pairs) -> pairs] :
           /\ \A i, j \in DOMAIN o : i # j => o[i] # o[j]
           /\ \A i, j \in DOMAIN o :
                 StrLess(o[i].game, o[j].game) => i < j }

\* ------------------------------------------------------------------------
\* subtasks.rs
\* ------------------------------------------------------------------------
\* the loop `for proc in ... { tracker.kill(proc)?; }` from position i;
\* the kill at position slow_at takes longer than the guard allows
RECURSIVE kill_each(_, _, _, _)
kill_each(processes, order, i, slow_at) ==
    IF i > Len(order) THEN [err |-> "Ok", calls |-> {}, signals |-> {}]
    ELSE LET k == kill(processes, order[i].proc,
                       IF i = slow_at THEN TamperingLimit + 1
                       ELSE TamperingLimit)
             rest == kill_each(processes, order, i + 1, slow_at)
         IN IF k.err # "Ok"
            THEN [err |-> k.err, calls |-> {order[i].proc},
                  signals |-> k.signal]
            ELSE [err |-> rest.err,
                  calls |-> {order[i].proc} \cup rest.calls,
                  signals |-> k.signal \cup rest.signals]

NoEffect == [err |-> "Ok", notes |-> {}, calls |-> {}, signals |-> {}]

\* variant: the loop over the tracked processes stops after the first one
SessionEndGameKiller_execute_first(session, processes, order, notify_ok, slow_at) ==
    IF session # << >> /\ is_session_ended(session[1])
    THEN IF ~notify_ok
         THEN [NoEffect EXCEPT !.err = "NotificationError"]
         ELSE LET k == kill_each(processes, SubSeq(order, 1, 1), 1, slow_at)
              IN [err |-> k.err, notes |-> {"session_end"},
                  calls |-> k.calls, signals |-> k.signals]
    ELSE NoEffect

\* impl SubTask for SessionEndGameKiller
SessionEndGameKiller_execute(session, processes, order, notify_ok, slow_at) ==
    IF session # << >> /\ is_session_ended(session[1])
    THEN IF ~notify_ok
         THEN [NoEffect EXCEPT !.err = "NotificationError"]
         ELSE LET k == kill_each(processes, order, 1, slow_at)
              IN [err |-> k.err, notes |-> {"session_end"},
                  calls |-> k.calls, signals |-> k.signals]
    ELSE NoEffect

\* variant: only the first record of games_found is killed
RampageMode_execute_first(processes, order, slow_at) == LET k == kill_each(processes, SubSeq(order, 1, IF order = << >> THEN 0 ELSE 1), 1, slow_at) IN [err |-> k.err, notes |-> {}, calls |-> k.calls, signals |-> k.signals]

\* impl SubTask for RampageMode: the session is not consulted
RampageMode_execute(processes, order, slow_at) ==
    LET k == kill_each(processes, order, 1, slow_at)
    IN [err |-> k.err, notes |-> {}, calls |-> k.calls, signals |-> k.signals]

\* WarnSessionEnding::from: floor((threshold / 100) * session_duration)
WarnSessionEnding_from(threshold, session_duration) ==
    (threshold * session_duration) \div 100

\* variant: the was_warned latch is not consulted
WarnSessionEnding_execute_unlatched(was, duration, session, time_played, notify_ok) ==
    IF session # << >>
    THEN IF ~is_session_ended(session[1]) /\ time_played > duration
         THEN [err |-> IF notify_ok THEN "Ok" ELSE "NotificationError",
               was_warned |-> TRUE,
               notes |-> IF notify_ok THEN {"warning"} ELSE {},
               attempted |-> TRUE]
         ELSE [err |-> "Ok", was_warned |-> was, notes |-> {},
               attempted |-> FALSE]
    ELSE [err |-> "Ok", was_warned |-> FALSE, notes |-> {},
          attempted |-> FALSE]

\* variant: the latch is cleared once the session has ended
WarnSessionEnding_execute_rearmed(was, duration, session, time_played, notify_ok) == IF session = << >> THEN [err |-> "Ok", was_warned |-> FALSE, notes |-> {}, attempted |-> FALSE] ELSE IF ~was /\ ~is_session_ended(session[1]) /\ time_played > duration THEN [err |-> IF notify_ok THEN "Ok" ELSE "NotificationError", was_warned |-> TRUE, notes |-> IF notify_ok THEN {"warning"} ELSE {}, attempted |-> TRUE] ELSE [err |-> "Ok", was_warned |-> was /\ ~is_session_ended(session[1]), notes |-> {}, attempted |-> FALSE]

\* variant: the latch is set only once the notification was sent
WarnSessionEnding_execute_latch_after(was, duration, session, time_played, notify_ok) == IF session = << >> THEN [err |-> "Ok", was_warned |-> FALSE, notes |-> {}, attempted |-> FALSE] ELSE IF ~was /\ ~is_session_ended(session[1]) /\ time_played > duration THEN [err |-> IF notify_ok THEN "Ok" ELSE "NotificationError", was_warned |-> notify_ok, notes |-> IF notify_ok THEN {"warning"} ELSE {}, attempted |-> TRUE] ELSE [err |-> "Ok", was_warned |-> was, notes |-> {}, attempted |-> FALSE]

\* impl SubTask for WarnSessionEnding: [err, was_warned, notes, attempted]
WarnSessionEnding_execute(was, duration, session, time_played, notify_ok) ==
    IF session # << >>
    THEN IF ~was /\ ~is_session_ended(session[1]) /\ time_played > duration
         THEN [err |-> IF notify_ok THEN "Ok" ELSE "NotificationError",
               was_warned |-> TRUE,
               notes |-> IF notify_ok THEN {"warning"} ELSE {},
               attempted |-> TRUE]
         ELSE [err |-> "Ok", was_warned |-> was, notes |-> {},
               attempted |-> FALSE]
    ELSE [err |-> "Ok", was_warned |-> FALSE, notes |-> {},
          attempted |-> FALSE]

\* `as u64` of an i64: two's complement wrap. U64Wrap stands for 2^64; it
\* only has to exceed every elapsed time of the model.
U64Wrap == 1048576

AsU64(x) == x % U64Wrap

\* variant: the detected latch is not consulted
ClockTampering_execute_unlatched(was_detected, clock_elapsed, instant_elapsed) ==
    IF AsU64(clock_elapsed) > instant_elapsed
    THEN [err |-> "ClockTamperingError", detected |-> TRUE]
    ELSE [err |-> "Ok", detected |-> was_detected]

\* impl SubTask for ClockTampering: [err, detected]
ClockTampering_execute(was_detected, clock_elapsed, instant_elapsed) ==
    IF was_detected THEN [err |-> "Ok", detected |-> TRUE]
    ELSE LET clock_estimation == AsU64(clock_elapsed)
             instant_estimation == instant_elapsed
         IN IF clock_estimation > instant_estimation
            THEN [err |-> "ClockTamperingError", detected |-> TRUE]
            ELSE [err |-> "Ok", detected |-> FALSE]

\* ------------------------------------------------------------------------
\* db.rs: SaveStatistics
\* ------------------------------------------------------------------------
\* the primary key (pid, name, cmd, start_time); the cmd column holds the
\* joined command line
RowKey(r) ==
    [pid |-> r.pid, name |-> r.name, cmd |-> r.cmd, start_time |-> r.start_time]

RowOf(proc, game_name) ==
    [pid |-> proc.pid, name |-> proc.name, cmd |-> Join(proc.cmd),
     game_name |-> game_name, run_time |-> proc.run_time,
     start_time |-> proc.start_time]

\* variant: a plain INSERT, no ON CONFLICT clause
upsert_process_insert(rows, proc, game_name) == rows \cup {RowOf(proc, game_name)}

\* INSERT ... ON CONFLICT (pid, name, cmd, start_time) DO UPDATE SET run_time
upsert_process(rows, proc, game_name) ==
    LET new == RowOf(proc, game_name)
    IN IF \E r \in rows : RowKey(r) = RowKey(new)
       THEN { IF RowKey(r) = RowKey(new)
              THEN [r EXCEPT !.run_time = new.run_time] ELSE r : r \in rows }
       ELSE rows \cup {new}

\* impl SubTask for SaveStatistics: the statement at position fail_at
\* fails (0: none does): [err, rows]
RECURSIVE SaveStatistics_execute(_, _, _, _)
SaveStatistics_execute(rows, order, i, fail_at) ==
    IF i > Len(order) THEN [err |-> "Ok", rows |-> rows]
    ELSE IF i = fail_at THEN [err |-> "DatabaseError", rows |-> rows]
    ELSE SaveStatistics_execute(
             upsert_process(rows, order[i].proc, order[i].game),
             order, i + 1, fail_at)

\* ------------------------------------------------------------------------
\* main.rs: command line and registration of the subtasks
\* ------------------------------------------------------------------------
\* the command lines the scheduler specification starts from; stats is
\* whether save_stats() could open the database
Configs ==
    { [session_duration |-> <<3>>, monitor_only |-> FALSE, warn |-> TRUE,
       warning_threshold |-> 50, stats |-> FALSE],
      [session_duration |-> << >>, monitor_only |-> FALSE, warn |-> FALSE,
       warning_threshold |-> 50, stats |-> FALSE] }

\* variant: --monitor-only is not consulted
registered_enforcing(args) == <<"GamesLogger", "ClockTampering">> \o (IF args.stats THEN <<"SaveStatistics">> ELSE << >>) \o (IF args.session_duration # << >> THEN <<"SessionEndGameKiller">> \o (IF args.warn THEN <<"WarnSessionEnding">> ELSE << >>) ELSE << >>)

\* the scheduler.add calls of main, in order
registered(args) ==
    <<"GamesLogger", "ClockTampering">>
    \o (IF args.stats THEN <<"SaveStatistics">> ELSE << >>)
    \o (IF args.session_duration # << >>
        THEN (IF ~args.monitor_only THEN <<"SessionEndGameKiller">> ELSE << >>)
             \o (IF args.warn THEN <<"WarnSessionEnding">> ELSE << >>)
        ELSE << >>)

\* variant: only the clock failure is matched by the loop
main_restarts_clock_only(err) == err = "ClockTamperingError"

\* variant: the clock failure leaves the loop
main_restarts_profiler_only(err) == err \in {"DesynchronizedTimerError", "TamperingDetected"}

\* the match on scheduler.start()'s error in main's loop: TRUE when the
\* loop calls start again
main_restarts(err) ==
    err \in {"DesynchronizedTimerError", "TamperingDetected",
             "ClockTamperingError"}

\* ------------------------------------------------------------------------
\* scheduler.rs: GameTrackerScheduler::start
\* ------------------------------------------------------------------------
\* variant: the loop goes on to the next subtask whatever was returned
start_next_ignoring(err, i, n) ==
    IF i < n THEN [pc |-> "subtasks", idx |-> i + 1, result |-> "Ok"]
    ELSE [pc |-> "sleep", idx |-> 0, result |-> "Ok"]

\* where the loop of start goes after the operation at position i of the
\* tick (0: the refresh) returned err; n subtasks are registered
start_next(err, i, n) ==
    IF err # "Ok" THEN [pc |-> "returned", idx |-> i, result |-> err]
    ELSE IF i < n THEN [pc |-> "subtasks", idx |-> i + 1, result |-> "Ok"]
    ELSE [pc |-> "sleep", idx |-> 0, result |-> "Ok"]

\* ------------------------------------------------------------------------
\* State
\* ------------------------------------------------------------------------
VARIABLES
    system_processes,   \* GamingTracker.system_processes: the last snapshot
    process_snapshots,  \* GamingTracker.process_snapshots
    games,              \* GamingTracker.games (games_found)
    gaming_session,     \* GamingTracker.gaming_session
    sub_tasks,          \* GameTrackerScheduler.sub_tasks
    warn_duration,      \* WarnSessionEnding.duration
    was_warned,         \* WarnSessionEnding.was_warned
    detected,           \* ClockTampering.detected
    db,                 \* rows of table game_tracker
    pc, idx, result,    \* position in main / start, error start returned
    uptime,             \* monotonic time since the process started
    skew,               \* wall clock minus monotonic clock, 0 at startup
    executed,           \* current tick: <<[op, err]>> of the operations run
    notified,           \* current tick: notifications shown
    kill_calls,         \* current tick: [by, proc] of the tracker.kill calls
    signalled,          \* current tick: pids a kill signal was sent to
    history,            \* facts about the run so far (see Init)
    duration_spec,      \* the text given to --session-duration, << >> once
                        \* main runs
    parsed_duration     \* what DurationParser::from_str returned for it

vars == <<system_processes, process_snapshots, games, gaming_session,
          sub_tasks, warn_duration, was_warned, detected, db, pc, idx,
          result, uptime, skew, executed, notified, kill_calls, signalled,
          history, duration_spec, parsed_duration>>

tracker_vars == <<system_processes, process_snapshots, games, gaming_session>>
subtask_vars == <<was_warned, detected, db>>
config_vars == <<sub_tasks, warn_duration, duration_spec, parsed_duration>>
clock_vars == <<uptime, skew>>

StartClock == 0
MaxSkew == 2

\* Local::now()
Now == StartClock + uptime + skew

Saturate(n) == IF n > 2 THEN 2 ELSE n

TimePlayed == total_time_played(games)

\* the condition under which WarnSessionEnding warns, latch aside
WarnCondition ==
    /\ gaming_session # << >>
    /\ ~is_session_ended(gaming_session[1])
    /\ TimePlayed > warn_duration

\* ------------------------------------------------------------------------
\* Init: main up to the first call of scheduler.start()
\* ------------------------------------------------------------------------
InitScheduler(args, tasks) ==
    /\ system_processes = << >>
    /\ process_snapshots = EmptyTree
    /\ games = << >>
    /\ gaming_session =
         IF args.session_duration # << >>
         THEN << from_duration(args.session_duration[1], StartClock) >>
         ELSE << >>
    /\ sub_tasks = tasks
    /\ warn_duration =
         IF args.session_duration # << >>
         THEN WarnSessionEnding_from(args.warning_threshold,
                                     args.session_duration[1])
         ELSE 0
    /\ was_warned = FALSE
    /\ detected = FALSE
    /\ db = {}
    /\ pc = "update"
    /\ idx = 0
    /\ result = "Ok"
    /\ uptime = 0
    /\ skew = 0
    /\ executed = << >>
    /\ notified = {}
    /\ kill_calls = {}
    /\ signalled = {}
    /\ history = [replaced |-> FALSE,  \* the last refresh replaced a record
                                       \* by one of another run_time
                  crossed |-> FALSE,   \* the last refresh ended the session,
                                       \* the one before it on that day did not
                  reset |-> FALSE,     \* the last refresh found the session
                                       \* ended and left it not ended
                  warn_due_before |-> FALSE, \* WarnCondition held in an earlier tick
                  warn_attempts |-> 0, \* warnings attempted (saturating)
                  ct_failures |-> 0,   \* ClockTamperingError returned (saturating)
                  kill_sent |-> {},    \* pids a kill signal was sent to in
                                       \* an earlier tick
                  refresh_elapsed |-> 0, \* whole seconds the refresh of this
                                       \* tick took
                  slow_kill |-> << >>, \* << record >> whose kill took more
                                       \* than TamperingLimit in this tick
                  kill_aborted |-> << >>] \* << uptime >> of the tick in which
                                       \* ClockTampering failed with the
                                       \* session ended, a game tracked and
                                       \* the killer registered after it

InitState(args, tasks) ==
    /\ InitScheduler(args, tasks)
    /\ duration_spec = << >>
    /\ parsed_duration = << >>

InitWith(args) == InitState(args, registered(args))

Init == \E args \in Configs : InitWith(args)

\* ------------------------------------------------------------------------
\* Actions
\* ------------------------------------------------------------------------
\* bookkeeping of start after the subtask at idx returned err
Continue(op, err) ==
    LET nx == start_next(err, idx, Len(sub_tasks))
    IN /\ pc' = nx.pc
       /\ idx' = nx.idx
       /\ result' = nx.result
       /\ executed' = Append(executed, [op |-> op, err |-> err])

AtSubtask(name) ==
    /\ pc = "subtasks"
    /\ idx \in 1..Len(sub_tasks)
    /\ sub_tasks[idx] = name

\* the records of a tick are cleared when the tick is over
EndOfTick ==
    /\ executed' = << >>
    /\ notified' = {}
    /\ kill_calls' = {}
    /\ signalled' = {}
    /\ history' = [history EXCEPT !.replaced = FALSE, !.crossed = FALSE,
                                  !.reset = FALSE,
                                  !.kill_sent = @ \cup signalled,
                                  !.refresh_elapsed = 0,
                                  !.slow_kill = << >>]

\* start: self.tracker.refresh()? at the top of the loop, on a snapshot
\* of snapshots
RefreshFrom(snapshots) ==
    /\ pc = "update"
    /\ \E snapshot \in snapshots,
          elapsed \in {TamperingLimit, TamperingLimit + 1},
          valid \in IF gaming_session # << >>
                       /\ is_passed_midnight(gaming_session[1], Now)
                    THEN BOOLEAN ELSE {TRUE} :
         \E r \in {refresh(games, gaming_session, snapshot, Now, valid, elapsed)} :
         LET nx == start_next(r.err, 0, Len(sub_tasks))
         IN /\ system_processes' = r.system_processes
            /\ process_snapshots' = r.process_snapshots
            /\ games' = r.games
            /\ gaming_session' = r.session
            /\ pc' = nx.pc
            /\ idx' = nx.idx
            /\ result' = nx.result
            /\ executed' = << [op |-> "refresh", err |-> r.err] >>
            /\ history' =
                 [history EXCEPT
                    !.replaced =
                        \E g \in DOMAIN games : \E old \in games[g] :
                            \E new \in r.games[g] :
                                /\ ProcessInfo_eq(old, new)
                                /\ old.run_time # new.run_time,
                    !.crossed =
                        /\ gaming_session # << >>
                        /\ ~is_session_ended(gaming_session[1])
                        /\ gaming_session[1].end_of_day = r.session[1].end_of_day
                        /\ 0 < TimePlayed
                        /\ TimePlayed < gaming_session[1].duration
                        /\ is_session_ended(r.session[1]),
                    !.reset =
                        /\ gaming_session # << >>
                        /\ is_session_ended(gaming_session[1])
                        /\ ~is_session_ended(r.session[1]),
                    !.refresh_elapsed = elapsed,
                    !.warn_due_before =
                        @ \/ (WarnCondition
                              /\ \E i \in DOMAIN sub_tasks :
                                    sub_tasks[i] = "WarnSessionEnding")]
    /\ UNCHANGED <<subtask_vars, config_vars, clock_vars, notified,
                   kill_calls, signalled>>

Refresh == RefreshFrom(Snapshots)

\* the record whose kill, the one at position slow_at of the loop, was
\* called and took more than TamperingLimit; before if there is none
SlowKill(order, slow_at, calls, before) ==
    IF slow_at \in 1..Len(order) /\ order[slow_at].proc \in calls
    THEN << order[slow_at].proc >> ELSE before

\* variant: the logger empties the sets it has printed
GamesLogger_clearing ==
    /\ AtSubtask("GamesLogger")
    /\ Continue("GamesLogger", "Ok")
    /\ games' = [g \in DOMAIN games |-> {}]
    /\ UNCHANGED <<system_processes, process_snapshots, gaming_session,
                   subtask_vars, config_vars, clock_vars, notified,
                   kill_calls, signalled, history>>

GamesLogger ==
    /\ AtSubtask("GamesLogger")
    /\ Continue("GamesLogger", "Ok")
    /\ UNCHANGED <<tracker_vars, subtask_vars, config_vars, clock_vars,
                   notified, kill_calls, signalled, history>>

ClockTampering ==
    /\ AtSubtask("ClockTampering")
    /\ \E r \in {ClockTampering_execute(detected, Now - StartClock, uptime)} :
          /\ detected' = r.detected
          /\ history' = [history EXCEPT
                            !.ct_failures =
                               IF r.err # "Ok" THEN Saturate(@ + 1) ELSE @,
                            !.kill_aborted =
                               IF /\ r.err # "Ok"
                                  /\ gaming_session # << >>
                                  /\ is_session_ended(gaming_session[1])
                                  /\ TrackedPairs(games) # {}
                                  /\ \E i \in (idx + 1)..Len(sub_tasks) :
                                        sub_tasks[i] = "SessionEndGameKiller"
                               THEN << uptime >> ELSE @]
          /\ Continue("ClockTampering", r.err)
    /\ UNCHANGED <<tracker_vars, was_warned, db, config_vars, clock_vars,
                   notified, kill_calls, signalled>>

SaveStatistics ==
    /\ AtSubtask("SaveStatistics")
    /\ \E order \in IterOrders(games) : \E fail_at \in 0..Len(order) :
         \E r \in {SaveStatistics_execute(db, order, 1, fail_at)} :
            /\ db' = r.rows
            /\ Continue("SaveStatistics", r.err)
    /\ UNCHANGED <<tracker_vars, was_warned, detected, config_vars,
                   clock_vars, notified, kill_calls, signalled, history>>

\* variant: a process that was sent a kill signal in an earlier tick is
\* not sent another
SessionEndGameKiller_once ==
    /\ AtSubtask("SessionEndGameKiller")
    /\ \E order \in IterOrders(games) : \E slow_at \in 0..Len(order) :
       \E notify_ok \in BOOLEAN :
         \E r \in {SessionEndGameKiller_execute(gaming_session,
                      system_processes, order, notify_ok, slow_at)} :
            /\ notified' = notified \cup r.notes
            /\ kill_calls' = kill_calls \cup
                 { [by |-> "SessionEndGameKiller", proc |-> p] : p \in r.calls }
            /\ signalled' = signalled \cup (r.signals \ history.kill_sent)
            /\ history' = [history EXCEPT !.slow_kill =
                              SlowKill(order, slow_at, r.calls, @)]
            /\ Continue("SessionEndGameKiller", r.err)
    /\ UNCHANGED <<tracker_vars, subtask_vars, config_vars, clock_vars>>

SessionEndGameKiller ==
    /\ AtSubtask("SessionEndGameKiller")
    /\ \E order \in IterOrders(games) : \E slow_at \in 0..Len(order) :
       \E notify_ok \in BOOLEAN :
         \E r \in {SessionEndGameKiller_execute(gaming_session,
                      system_processes, order, notify_ok, slow_at)} :
            /\ notified' = notified \cup r.notes
            /\ kill_calls' = kill_calls \cup
                 { [by |-> "SessionEndGameKiller", proc |-> p] : p \in r.calls }
            /\ signalled' = signalled \cup r.signals
            /\ history' = [history EXCEPT !.slow_kill =
                              SlowKill(order, slow_at, r.calls, @)]
            /\ Continue("SessionEndGameKiller", r.err)
    /\ UNCHANGED <<tracker_vars, subtask_vars, config_vars, clock_vars>>

WarnSessionEnding ==
    /\ AtSubtask("WarnSessionEnding")
    /\ \E notify_ok \in BOOLEAN :
         \E r \in {WarnSessionEnding_execute(was_warned, warn_duration,
                      gaming_session, TimePlayed, notify_ok)} :
            /\ was_warned' = r.was_warned
            /\ notified' = notified \cup r.notes
            /\ history' = [history EXCEPT !.warn_attempts =
                              IF r.attempted THEN Saturate(@ + 1) ELSE @]
            /\ Continue("WarnSessionEnding", r.err)
    /\ UNCHANGED <<tracker_vars, detected, db, config_vars, clock_vars,
                   kill_calls, signalled>>

RampageMode ==
    /\ AtSubtask("RampageMode")
    /\ \E order \in IterOrders(games) : \E slow_at \in 0..Len(order) :
         \E r \in {RampageMode_execute(system_processes, order, slow_at)} :
            /\ kill_calls' = kill_calls \cup
                 { [by |-> "RampageMode", proc |-> p] : p \in r.calls }
            /\ signalled' = signalled \cup r.signals
            /\ history' = [history EXCEPT !.slow_kill =
                              SlowKill(order, slow_at, r.calls, @)]
            /\ Continue("RampageMode", r.err)
    /\ UNCHANGED <<tracker_vars, subtask_vars, config_vars, clock_vars,
                   notified>>

\* start: thread::sleep(remainder), one scan interval; meanwhile the
\* wall clock may be set forward or back by one of jumps
ClockJumps == {-1, 0, 1}

SleepWith(jumps) ==
    /\ pc = "sleep"
    /\ uptime < MaxTicks
    /\ \E jump \in jumps :
         /\ skew + jump \in (0 - MaxSkew)..MaxSkew
         /\ skew' = skew + jump
    /\ uptime' = uptime + 1
    /\ pc' = "update"
    /\ UNCHANGED <<tracker_vars, subtask_vars, config_vars, idx, result>>
    /\ EndOfTick

Sleep == SleepWith(ClockJumps)

\* main: a tampering error is reported and start is called again
MainRestart ==
    /\ pc = "returned"
    /\ main_restarts(result)
    /\ pc' = "update"
    /\ UNCHANGED <<tracker_vars, subtask_vars, config_vars, clock_vars, idx,
                   result>>
    /\ EndOfTick

\* main: any other error leaves the loop; exit(-1)
MainExit ==
    /\ pc = "returned"
    /\ ~main_restarts(result)
    /\ pc' = "exited"
    /\ UNCHANGED <<tracker_vars, subtask_vars, config_vars, clock_vars, idx,
                   result, executed, notified, kill_calls, signalled, history>>

Next ==
    \/ Refresh
    \/ GamesLogger
    \/ ClockTampering
    \/ SessionEndGameKiller
    \/ WarnSessionEnding
    \/ Sleep
    \/ MainRestart
    \/ MainExit

Spec == Init /\ [][Next]_vars

\* ------------------------------------------------------------------------
\* The monitoring specification: --monitor-only with a session and the
\* statistics database
\* ------------------------------------------------------------------------
MonitorArgs ==
    [session_duration |-> <<3>>, monitor_only |-> TRUE, warn |-> FALSE,
     warning_threshold |-> 50, stats |-> TRUE]

MonitorInit == InitWith(MonitorArgs)

MonitorNext ==
    \/ Refresh
    \/ GamesLogger
    \/ ClockTampering
    \/ SaveStatistics
    \/ Sleep
    \/ MainRestart
    \/ MainExit

MonitorSpec == MonitorInit /\ [][MonitorNext]_vars

\* ------------------------------------------------------------------------
\* The tree specification: ProcessTree::from on every snapshot of up to
\* MaxTreePid processes, init included.
\* ------------------------------------------------------------------------
TreeArgs ==
    [session_duration |-> << >>, monitor_only |-> FALSE, warn |-> FALSE,
     warning_threshold |-> 50, stats |-> FALSE]

TreeInit == InitWith(TreeArgs)

TreeRefresh == RefreshFrom(TreeSnapshots)

TreeNext == TreeRefresh

TreeSpec == TreeInit /\ [][TreeNext]_vars

\* ------------------------------------------------------------------------
\* The restart specification: one game whose process may exit and come
\* back under another pid; no session is configured.
\* ------------------------------------------------------------------------
RestartShapes == { [name |-> <<"a", "b">>, cmd |-> << >>] }

RestartSnapshots == SnapshotsOf({2, 3}, {NoPid}, RestartShapes, 1..MaxRunTime)

RestartInit == InitWith(TreeArgs)

RestartRefresh == RefreshFrom(RestartSnapshots)

RestartNext ==
    \/ RestartRefresh
    \/ GamesLogger
    \/ ClockTampering
    \/ Sleep
    \/ MainRestart

RestartSpec == RestartInit /\ [][RestartNext]_vars

\* ------------------------------------------------------------------------
\* The scenario specification: --session-duration 10s --warn
\* --warning-threshold 50, one process whose command line contains an
\* identifier, reported with a run_time of 5 or of 11 seconds.
\* ------------------------------------------------------------------------
ScenarioArgs ==
    [session_duration |-> <<10>>, monitor_only |-> FALSE, warn |-> TRUE,
     warning_threshold |-> 50, stats |-> FALSE]

ScenarioShapes == { [name |-> <<"z">>, cmd |-> << <<"z">>, <<"b">> >>] }

ScenarioSnapshots == SnapshotsOf({2}, {NoPid}, ScenarioShapes, {5, 11})

ScenarioInit == InitWith(ScenarioArgs)

ScenarioRefresh == RefreshFrom(ScenarioSnapshots)

ScenarioNext ==
    \/ ScenarioRefresh
    \/ GamesLogger
    \/ ClockTampering
    \/ SessionEndGameKiller
    \/ WarnSessionEnding
    \/ Sleep
    \/ MainRestart
    \/ MainExit

ScenarioSpec == ScenarioInit /\ [][ScenarioNext]_vars

\* ------------------------------------------------------------------------
\* The zero-budget specification: --session-duration 0s; a process may be
\* reported with a run_time of 0 (started within the last second).
\* ------------------------------------------------------------------------
ZeroArgs ==
    [session_duration |-> <<0>>, monitor_only |-> FALSE, warn |-> FALSE,
     warning_threshold |-> 50, stats |-> FALSE]

ZeroSnapshots == SnapshotsOf({2}, {NoPid}, Shapes, 0..MaxRunTime)

ZeroInit == InitWith(ZeroArgs)

ZeroRefresh == RefreshFrom(ZeroSnapshots)

ZeroNext ==
    \/ ZeroRefresh
    \/ GamesLogger
    \/ ClockTampering
    \/ SessionEndGameKiller
    \/ Sleep
    \/ MainRestart
    \/ MainExit

ZeroSpec == ZeroInit /\ [][ZeroNext]_vars

\* ------------------------------------------------------------------------
\* The rampage specification: RampageMode added to the scheduler after
\* the subtasks of main, with --monitor-only (so that it is the only
\* subtask that kills), with and without a session.
\* ------------------------------------------------------------------------
RampageConfigs ==
    { [session_duration |-> <<3>>, monitor_only |-> TRUE, warn |-> FALSE,
       warning_threshold |-> 50, stats |-> FALSE],
      [session_duration |-> << >>, monitor_only |-> TRUE, warn |-> FALSE,
       warning_threshold |-> 50, stats |-> FALSE] }

RampageInit ==
    \E args \in RampageConfigs :
        InitState(args, Append(registered(args), "RampageMode"))

RampageNext ==
    \/ Refresh
    \/ GamesLogger
    \/ ClockTampering
    \/ RampageMode
    \/ Sleep
    \/ MainRestart
    \/ MainExit

RampageSpec == RampageInit /\ [][RampageNext]_vars

\* ------------------------------------------------------------------------
\* time.rs: DurationParser
\* ------------------------------------------------------------------------
MaxWords == 2

Digits == {"0", "1", "2", "3", "4", "5", "6", "7", "8", "9"}

DigitValue(c) ==
    CASE c = "0" -> 0 [] c = "1" -> 1 [] c = "2" -> 2 [] c = "3" -> 3
      [] c = "4" -> 4 [] c = "5" -> 5 [] c = "6" -> 6 [] c = "7" -> 7
      [] c = "8" -> 8 [] c = "9" -> 9

\* the value of a string of digits, most significant first
RECURSIVE DigitsValue(_, _)
DigitsValue(str, acc) ==
    IF str = << >> THEN acc
    ELSE DigitsValue(Tail(str), acc * 10 + DigitValue(Head(str)))

\* u64::from_str: << n >>, or << >> for a ParseIntError (the numbers read
\* here have at most four digits, none is near 2^64)
u64_from_str(str) ==
    LET body == IF str # << >> /\ Head(str) = "+" THEN Tail(str) ELSE str
    IN  IF body = << >> \/ \E i \in DOMAIN body : body[i] \notin Digits
        THEN << >>
        ELSE << DigitsValue(body, 0) >>

\* \d+ at position i: the position after the longest run of digits, 0 if
\* there is no digit at i
RECURSIVE DigitsEnd(_, _)
DigitsEnd(s, i) ==
    IF i > Len(s) \/ s[i] \notin Digits THEN 0
    ELSE LET e == DigitsEnd(s, i + 1) IN IF e = 0 THEN i + 1 ELSE e

\* \d+[hHmMsS]\s? at position i: the position after it, 0 if it does not
\* match there
TokenEnd(s, i) ==
    LET d == DigitsEnd(s, i)
    IN  IF d = 0 \/ d > Len(s) \/ s[d] \notin {"h", "H", "m", "M", "s", "S"}
        THEN 0
        ELSE IF d + 1 <= Len(s) /\ s[d + 1] = " " THEN d + 2 ELSE d + 1

\* (\d+[hHmMsS]\s?)+ at position i, greedy: the position after the match,
\* 0 if it does not match there
RECURSIVE MatchEnd(_, _)
MatchEnd(s, i) ==
    LET t == TokenEnd(s, i)
    IN  IF t = 0 THEN 0
        ELSE LET n == MatchEnd(s, t) IN IF n = 0 THEN t ELSE n

\* Regex::find_iter from position i: the successive leftmost matches
RECURSIVE find_iter(_, _)
find_iter(s, i) ==
    IF i > Len(s) THEN << >>
    ELSE LET e == MatchEnd(s, i)
         IN  IF e = 0 THEN find_iter(s, i + 1)
             ELSE << SubSeq(s, i, e - 1) >> \o find_iter(s, e)

\* ^\d+:\d+:\d+$
ColonForm(s) ==
    \E i, j \in DOMAIN s :
       /\ 1 < i /\ i + 1 < j /\ j < Len(s)
       /\ s[i] = ":" /\ s[j] = ":"
       /\ \A k \in DOMAIN s : k \notin {i, j} => s[k] \in Digits

\* RegexSet::matches: the indices of the patterns that match somewhere
RegexSet_matches(s) ==
    (IF find_iter(s, 1) # << >> THEN {0} ELSE {}) \cup
    (IF ColonForm(s) THEN {1} ELSE {})

DurationParser_default == [err |-> "Ok", hours |-> 0, minutes |-> 0, seconds |-> 0]

\* parse_hms_duration: for each match, pop the last character as the unit
\* and read the rest as a u64
RECURSIVE parse_hms_duration(_, _)
parse_hms_duration(extractor, d) ==
    IF extractor = << >> THEN d
    ELSE LET current_match == Head(extractor)
             time_modifier == current_match[Len(current_match)]
             base_str == SubSeq(current_match, 1, Len(current_match) - 1)
             n == u64_from_str(base_str)
         IN  IF time_modifier \notin {"h", "H", "m", "M", "s", "S"}
             THEN [d EXCEPT !.err = "SessionDurationParserError"]
             ELSE IF n = << >> THEN [d EXCEPT !.err = "ParseIntError"]
             ELSE IF time_modifier \in {"h", "H"}
             THEN parse_hms_duration(Tail(extractor), [d EXCEPT !.hours = @ + n[1]])
             ELSE IF time_modifier \in {"m", "M"}
             THEN parse_hms_duration(Tail(extractor), [d EXCEPT !.minutes = @ + n[1]])
             ELSE parse_hms_duration(Tail(extractor), [d EXCEPT !.seconds = @ + n[1]])

\* str::splitn(n, ":")
RECURSIVE splitn(_, _)
splitn(n, s) ==
    IF n <= 1 \/ \A i \in DOMAIN s : s[i] # ":" THEN << s >>
    ELSE LET i == Min({k \in DOMAIN s : s[k] = ":"})
         IN  << SubSeq(s, 1, i - 1) >> \o splitn(n - 1, SubSeq(s, i + 1, Len(s)))

\* parse_colon_duration
parse_colon_duration(time, d) ==
    LET parts == splitn(3, time)
        value(i) == u64_from_str(parts[i])
    IN  IF \E i \in DOMAIN parts : value(i) = << >>
        THEN [d EXCEPT !.err = "ParseIntError"]
        ELSE [d EXCEPT !.hours = @ + value(1)[1],
                       !.minutes = @ + (IF Len(parts) >= 2 THEN value(2)[1] ELSE 0),
                       !.seconds = @ + (IF Len(parts) >= 3 THEN value(3)[1] ELSE 0)]

\* <DurationParser as FromStr>::from_str
DurationParser_from_str(s) ==
    LET matched == RegexSet_matches(s)
        first == IF 0 \in matched
                 THEN parse_hms_duration(find_iter(s, 1), DurationParser_default)
                 ELSE DurationParser_default
    IN  IF first.err # "Ok" THEN first
        ELSE IF 1 \in matched THEN parse_colon_duration(s, first)
        ELSE first

\* DurationParser::to_seconds
to_seconds(d) == (d.hours * 60 * 60) + (d.minutes * 60) + d.seconds

\* ------------------------------------------------------------------------
\* The threshold specification: --warn with a --warning-threshold of 150
\* or of -50.
\* ------------------------------------------------------------------------
ThresholdConfigs ==
    { [session_duration |-> <<3>>, monitor_only |-> FALSE, warn |-> TRUE,
       warning_threshold |-> 150, stats |-> FALSE],
      [session_duration |-> <<3>>, monitor_only |-> FALSE, warn |-> TRUE,
       warning_threshold |-> 0 - 50, stats |-> FALSE] }

ThresholdInit == \E args \in ThresholdConfigs : InitWith(args)

ThresholdNext ==
    \/ Refresh
    \/ GamesLogger
    \/ ClockTampering
    \/ SessionEndGameKiller
    \/ WarnSessionEnding
    \/ Sleep
    \/ MainRestart
    \/ MainExit

ThresholdSpec == ThresholdInit /\ [][ThresholdNext]_vars

\* ------------------------------------------------------------------------
\* The specification with every subtask registered: statistics, killer
\* and warning as main registers them, and RampageMode after them.
\* ------------------------------------------------------------------------
AllTasksArgs ==
    [session_duration |-> <<2>>, monitor_only |-> FALSE, warn |-> TRUE,
     warning_threshold |-> 50, stats |-> TRUE]

\* one game process under pid 2, or none
AllTasksShapes == { [name |-> <<"a", "b">>, cmd |-> << >>] }

AllTasksSnapshots == SnapshotsOf({2}, {NoPid}, AllTasksShapes, 1..MaxRunTime)

AllTasksInit ==
    InitState(AllTasksArgs, Append(registered(AllTasksArgs), "RampageMode"))

AllTasksRefresh == RefreshFrom(AllTasksSnapshots)

AllTasksNext ==
    \/ AllTasksRefresh
    \/ GamesLogger
    \/ ClockTampering
    \/ SaveStatistics
    \/ SessionEndGameKiller
    \/ WarnSessionEnding
    \/ RampageMode
    \/ Sleep
    \/ MainRestart
    \/ MainExit

AllTasksSpec == AllTasksInit /\ [][AllTasksNext]_vars

\* ------------------------------------------------------------------------
\* The parsing specification: clap hands the text of --session-duration
\* to DurationParser::from_str.
\* ------------------------------------------------------------------------
Words ==
    { <<"1", "h">>, <<"1", "0", "H">>, <<"3", "0", "m">>, <<"9", "s">>,
      <<"a", "b", "c">>, <<"1", "0", "x">>, <<"8", "3">>,
      <<"1", ":", "2", ":", "3">> }

Separators == {" ", ","}

RECURSIVE SpecsOf(_)
SpecsOf(n) ==
    IF n <= 1 THEN Words
    ELSE { a \o <<sep>> \o w : a \in SpecsOf(n - 1), sep \in Separators, w \in Words }

DurationSpecs == UNION { SpecsOf(n) : n \in 1..MaxWords }

ParseInit ==
    /\ InitScheduler(TreeArgs, << >>)
    /\ duration_spec \in DurationSpecs
    /\ parsed_duration = << >>

ParseDuration ==
    /\ duration_spec # << >>
    /\ parsed_duration = << >>
    /\ parsed_duration' = << DurationParser_from_str(duration_spec) >>
    /\ UNCHANGED <<tracker_vars, subtask_vars, sub_tasks, warn_duration,
                   duration_spec, clock_vars, pc, idx, result, executed,
                   notified, kill_calls, signalled, history>>

ParseNext == ParseDuration

ParseSpec == ParseInit /\ [][ParseNext]_vars

\* ------------------------------------------------------------------------
\* Properties
\* ------------------------------------------------------------------------
\* a step of start that runs refresh
RefreshStep == pc = "update" /\ pc' # "update"

\* all nodes of a tree, at any depth
RECURSIVE TreeNodes(_)
TreeNodes(tree) ==
    { tree[n] : n \in DOMAIN tree } \cup
    UNION { TreeNodes(tree[n].children) : n \in DOMAIN tree }

\* the (game, record) pairs update_running_games has to record for a
\* tree: the hit of find_game on each root
Matched(tree) ==
    { [game |-> h[1].game_name, proc |-> StoredClone(h[1].process)] :
        h \in { find_game(tree[n], installed_games) : n \in DOMAIN tree }
              \ { << >> } }

KnownIdentifiers ==
    { IdentifierOrder(installed_games)[i] :
        i \in DOMAIN IdentifierOrder(installed_games) }

Tracked == { x.proc : x \in TrackedPairs(games) }

Killed == { k.proc : k \in kill_calls }

SessionEnded ==
    gaming_session # << >> /\ is_session_ended(gaming_session[1])

\* the operation op was run in the current tick and returned err
Ran(op, err) ==
    \E i \in DOMAIN executed : executed[i] = [op |-> op, err |-> err]

RanAny(op) == \E i \in DOMAIN executed : executed[i].op = op

WarnRegistered ==
    \E i \in DOMAIN sub_tasks : sub_tasks[i] = "WarnSessionEnding"

\* C1: after every refresh each game's set holds at most one record per
\* identity (pid, name, cmd); the identities the refresh matched carry the
\* run_time of its snapshot, every other record is the one held before, and
\* nothing else is in the sets.
C1_IdentityReplaced ==
    [][ RefreshStep =>
          \A matched \in {Matched(process_snapshots')} :
             /\ \A g \in DOMAIN games' : \A x, y \in games'[g] :
                   ProcessInfo_eq(x, y) => x = y
             /\ \A m \in matched :
                   m.game \in DOMAIN games' /\ m.proc \in games'[m.game]
             /\ \A g \in DOMAIN games : \A x \in games[g] :
                   (~\E m \in matched : m.game = g /\ ProcessInfo_eq(m.proc, x))
                   => x \in games'[g]
             /\ \A g \in DOMAIN games' : \A x \in games'[g] :
                   \/ [game |-> g, proc |-> x] \in matched
                   \/ g \in DOMAIN games /\ x \in games[g]
      ]_vars

\* a refresh has replaced a record by one of the same identity and another
\* run_time
C1_Replaced == pc # "update" /\ history.replaced

\* C2: with a session of budget B, a refresh that leaves
\* total_time_played >= B leaves the session ended (unless it was aborted
\* by the end-of-day computation, which leaves start_time at or past
\* end_of_day), and a refresh that finds the session not ended and leaves
\* total_time_played < B leaves it not ended.
C2_BudgetBoundary ==
    [][ (RefreshStep /\ gaming_session # << >>) =>
          LET played == total_time_played(games')
              before == gaming_session[1]
              after == gaming_session'[1]
          IN /\ (played >= after.duration /\ ~day_ended(after))
                    => is_session_ended(after)
             /\ (played < after.duration /\ ~is_session_ended(before))
                    => ~is_session_ended(after)
      ]_vars

\* a refresh ended the session with total_time_played exactly the budget,
\* the refresh before it on that day having left it not ended below it
C2_EndedAtBudget ==
    /\ pc # "update"
    /\ history.crossed
    /\ TimePlayed = gaming_session[1].duration

\* C3: a refresh that finds the session ended at a time at or past the
\* stored end of day and returns Ok leaves the session not ended, with a
\* later end of day.
C3_RolloverResetsEnded ==
    [][ (/\ RefreshStep
         /\ SessionEnded
         /\ Now >= gaming_session[1].end_of_day
         /\ pc' = "subtasks")
        => /\ ~is_session_ended(gaming_session'[1])
           /\ gaming_session'[1].end_of_day > gaming_session[1].end_of_day
      ]_vars

\* C4: the operations run in a tick are the refresh followed by the
\* registered subtasks in registration order, each once; only the last
\* operation run can have failed, nothing runs after a failure, and start
\* returns that failure.
C4_TickOrder ==
    LET n == Len(executed)
    IN /\ (pc = "update") <=> (n = 0)
       /\ n <= 1 + Len(sub_tasks)
       /\ \A i \in 1..n :
             executed[i].op = IF i = 1 THEN "refresh" ELSE sub_tasks[i - 1]
       /\ \A i \in 1..(n - 1) : executed[i].err = "Ok"
       /\ pc \in {"returned", "exited"} =>
             executed[n].err # "Ok" /\ result = executed[n].err
       /\ pc = "subtasks" => executed[n].err = "Ok" /\ idx = n
       /\ pc = "sleep" =>
             executed[n].err = "Ok" /\ n = 1 + Len(sub_tasks)

\* start returned the failure of a subtask that is not the last one
C4_SubtaskAborted ==
    /\ pc = "returned"
    /\ 1 < Len(executed)
    /\ Len(executed) < 1 + Len(sub_tasks)

\* C5 (amended): when SessionEndGameKiller returns Ok with the session
\* ended, the notification was sent and tracker.kill was called for every
\* record of games_found; when the notification fails no kill is called;
\* when a kill trips the timing guard the calls stop there; no kill is
\* called unless the session is ended and the notification was sent.
C5_KillsAfterNotification ==
    /\ (Ran("SessionEndGameKiller", "Ok") /\ SessionEnded)
          => "session_end" \in notified /\ Killed = Tracked
    /\ (Ran("SessionEndGameKiller", "Ok") /\ ~SessionEnded)
          => "session_end" \notin notified /\ Killed = {}
    /\ Ran("SessionEndGameKiller", "NotificationError")
          => SessionEnded /\ "session_end" \notin notified /\ Killed = {}
    /\ Ran("SessionEndGameKiller", "TamperingDetected")
          => /\ SessionEnded
             /\ "session_end" \in notified
             /\ Killed # {}
             /\ Killed \subseteq Tracked
    /\ Killed # {} => SessionEnded /\ "session_end" \in notified
    /\ \A i \in DOMAIN executed :
          executed[i].op = "SessionEndGameKiller" =>
             executed[i].err \in {"Ok", "NotificationError",
                                  "TamperingDetected"}

\* SessionEndGameKiller returned Ok having called kill for two records
C5_KilledAll ==
    /\ Ran("SessionEndGameKiller", "Ok")
    /\ SessionEnded
    /\ Cardinality(Killed) = 2

\* C5 as stated: whenever SessionEndGameKiller has executed with the
\* session ended, the notification was sent and kill was called for every
\* record of games_found.
C5_EveryTrackedKilled ==
    (RanAny("SessionEndGameKiller") /\ SessionEnded)
        => "session_end" \in notified /\ Killed = Tracked

\* C6 (amended): WarnSessionEnding attempts the warning at most once; it
\* has attempted it once it has executed in a tick with
\* total_time_played > warn-duration and the session not ended; the
\* notification is shown only in such a tick, and is not shown when the
\* send fails.
C6_WarnsAtMostOnce ==
    WarnRegistered =>
       /\ history.warn_attempts <= 1
       /\ was_warned <=> (history.warn_attempts = 1)
       /\ (RanAny("WarnSessionEnding") /\ WarnCondition) => was_warned
       /\ "warning" \in notified =>
             /\ Ran("WarnSessionEnding", "Ok")
             /\ WarnCondition
             /\ was_warned
       /\ Ran("WarnSessionEnding", "NotificationError") =>
             was_warned /\ "warning" \notin notified

\* the warning was sent
C6_Warned ==
    /\ "warning" \in notified
    /\ WarnCondition
    /\ history.warn_attempts = 1

\* C6 as stated: at the end of a tick the warning has been sent in it
\* exactly if it is the first tick in which total_time_played exceeds the
\* warn-duration with the session not ended.
C6_WarnsOnFirstDueTick ==
    (WarnRegistered /\ pc \in {"sleep", "returned"}) =>
        ("warning" \in notified <=>
            (WarnCondition /\ ~history.warn_due_before))

C8_ChildUnderParent ==
    \A p \in DOMAIN system_processes :
        LET parent == system_processes[p].parent
        IN (parent \in DOMAIN system_processes /\ parent # InitPid)
              => IsChildOf(process_snapshots, p, parent)

\* C9: every process of the snapshot is in the tree exactly once, and one
\* whose parent is not in the snapshot is a root.
C9_NoProcessDropped ==
    \A p \in DOMAIN system_processes :
        /\ Occurrences(process_snapshots, p) = 1
        /\ system_processes[p].parent \notin DOMAIN system_processes
              => p \in DOMAIN process_snapshots

\* C10: every process of the tree built by the refresh whose name or
\* joined command line contains a known identifier is in games_found with
\* the run_time of the snapshot.
C10_EveryMatchTracked ==
    \A node \in TreeNodes(process_snapshots) :
        (\E id \in KnownIdentifiers : NodeMatches(node, id))
            => StoredClone(node) \in Tracked

\* C11: when a refresh finds that a tracked process has left the snapshot
\* and a process that was not in the previous snapshot is matched for the
\* same game under another pid, total_time_played after the refresh is the
\* sum of the run times of the processes matched in this snapshot.
C11_RestartResetsContribution ==
    [][ RefreshStep =>
          \A matched \in {Matched(process_snapshots')} :
             (\E g \in DOMAIN games : \E old \in games[g] : \E m \in matched :
                 /\ old.pid \notin DOMAIN system_processes'
                 /\ m.game = g
                 /\ m.proc.pid # old.pid
                 /\ m.proc.pid \notin DOMAIN system_processes)
             => total_time_played(games') = SumRunTime(matched)
      ]_vars

\* C12: in the scenario, a first tick that completes with the process
\* reported at run_time 5 has sent the warning and left the session not
\* ended; a second tick that completes with the process reported at
\* run_time 11 has ended the session, called kill for that process and
\* sent no warning.
C12_Scenario ==
    /\ (uptime = 0 /\ pc = "sleep" /\ TimePlayed = 5)
          => "warning" \in notified /\ ~SessionEnded
    /\ (uptime = 1 /\ pc = "sleep" /\ TimePlayed = 11)
          => /\ SessionEnded
             /\ Killed # {}
             /\ Killed = Tracked
             /\ "warning" \notin notified

\* C13: whenever ClockTampering has executed in a tick in which the wall
\* clock is off the monotonic clock, by a change forward or backward since
\* the baseline, it has returned the clock-tampering failure in this tick
\* or had latched before.
C13_BothDirectionsDetected ==
    (RanAny("ClockTampering") /\ skew # 0) => detected

\* C14: when start has returned a clock-tampering or execution-tampering
\* failure the next step of main calls start again, with the tracker, the
\* subtasks and their state as they were; when start has returned any
\* other error the next step of main leaves the loop; start never returns
\* Ok, and nothing runs once main has left the loop.
C14_OuterLoop ==
    [][ /\ pc # "exited"
        /\ pc = "returned" =>
              /\ result # "Ok"
              /\ IF result \in {"ClockTamperingError", "TamperingDetected"}
                 THEN /\ pc' = "update"
                      /\ UNCHANGED <<tracker_vars, subtask_vars, config_vars>>
                 ELSE pc' = "exited"
      ]_vars

\* start was called again after it returned the clock-tampering failure
C14_Restarted ==
    /\ pc = "subtasks"
    /\ detected
    /\ Ran("refresh", "Ok")
    /\ ~RanAny("ClockTampering")

\* the rows of the store with their game_name left out
KeyedRows(rows) == { [key |-> RowKey(r), run_time |-> r.run_time] : r \in rows }

\* C15: the store never holds two rows of one key (pid, name, cmd,
\* start_time); no step removes a key from it; only the Persister changes
\* it, and a row it changes or adds carries the key and the run_time of a
\* tracked record; after an execution of the Persister that returned Ok
\* every tracked (game, process) pair has the row of its key, with its
\* run_time.
C15_UpsertByKey ==
    [][ \A tracked \in {{ RowOf(x.proc, x.game) : x \in TrackedPairs(games) }} :
          /\ \A r1, r2 \in db' : RowKey(r1) = RowKey(r2) => r1 = r2
          /\ \A r \in db : \E r2 \in db' : RowKey(r2) = RowKey(r)
          /\ \A r2 \in db' : r2 \in db \/ \E t \in KeyedRows(tracked) :
                t = [key |-> RowKey(r2), run_time |-> r2.run_time]
          /\ db' # db => AtSubtask("SaveStatistics")
          /\ (AtSubtask("SaveStatistics") /\ pc' # "returned")
                => KeyedRows(tracked) \subseteq KeyedRows(db')
      ]_vars

\* the Persister has returned Ok in a tick whose refresh replaced a
\* tracked record by one of another run_time, with two rows in the store
C15_RowUpdated ==
    /\ Ran("SaveStatistics", "Ok")
    /\ Cardinality(db) = 2
    /\ history.replaced

\* C16: with --monitor-only, SessionEndGameKiller is not among the
\* registered subtasks, and in no state of any tick has tracker.kill been
\* called or a kill signal been sent.
C16_MonitorOnlyNeverKills ==
    /\ \A i \in DOMAIN sub_tasks : sub_tasks[i] # "SessionEndGameKiller"
    /\ kill_calls = {}
    /\ signalled = {}

\* a tick has completed with the session ended, after a clock-tampering
\* failure was reported, and with games tracked
C16_EndedAndTampered ==
    /\ pc = "sleep"
    /\ SessionEnded
    /\ detected
    /\ Tracked # {}

\* C17: with a budget of zero, in every state of a tick whose refresh
\* matched a game the session is ended (unless the day rollover of that
\* refresh was aborted by the end-of-day computation, which leaves
\* start_time at or past end_of_day).
C17_ZeroBudgetEnds ==
    (/\ pc # "update"
     /\ gaming_session[1].duration = 0
     /\ Matched(process_snapshots) # {}
     /\ ~day_ended(gaming_session[1]))
    => SessionEnded

\* the first refresh has matched a game that started within the last
\* second, and the session is ended
C17_EndedOnFirstMatch ==
    /\ pc = "subtasks"
    /\ uptime = 0
    /\ idx = 1
    /\ Matched(process_snapshots) # {}
    /\ TimePlayed = 0
    /\ SessionEnded

\* C18: from a state without a session every step leads to a state
\* without a session; a refresh made without a session returns Ok or the
\* timing-guard failure only, records every process it matched in
\* games_found, and total_time_played covers the run times it matched.
C18_NoSessionNoBudget ==
    [][ gaming_session = << >> =>
          /\ gaming_session' = << >>
          /\ RefreshStep =>
                \A matched \in {Matched(process_snapshots')} :
                   /\ executed'[1].err \in {"Ok", "TamperingDetected"}
                   /\ matched \subseteq TrackedPairs(games')
                   /\ SumRunTime(matched) <= total_time_played(games')
      ]_vars

\* without a session, a later tick has completed with two records tracked
C18_TrackedWithoutSession ==
    /\ gaming_session = << >>
    /\ pc = "sleep"
    /\ uptime >= 1
    /\ Cardinality(Tracked) = 2
    /\ TimePlayed > 1

\* C19: a step from a state in which the session is ended to a state in
\* which it is not is a refresh made at or past the stored end of day
\* that restarted the session (start_time set to the time of the
\* refresh); every other step leaves an ended session ended.
C19_EndedMonotonic ==
    [][ (SessionEnded /\ ~SessionEnded') =>
          /\ RefreshStep
          /\ Now >= gaming_session[1].end_of_day
          /\ gaming_session' # << >>
          /\ gaming_session'[1].start_time = Now
      ]_vars

\* a refresh at the day rollover has found the session ended and left it
\* not ended
C19_ResetByRollover == pc # "update" /\ history.reset

\* C20: in every state with a session, end_of_day is the first midnight
\* strictly after start_time: start_time < end_of_day <= start_time + one
\* day.
C20_EndOfDayAfterStart ==
    gaming_session # << >> =>
        /\ gaming_session[1].start_time < gaming_session[1].end_of_day
        /\ gaming_session[1].end_of_day <= gaming_session[1].start_time + DayLen

C22_LatchSurvivesRollover ==
    [][ /\ (was_warned /\ gaming_session # << >>) =>
              /\ was_warned'
              /\ AtSubtask("WarnSessionEnding") => notified' = notified
        /\ (was_warned /\ ~was_warned') =>
              AtSubtask("WarnSessionEnding") /\ gaming_session = << >>
      ]_vars

\* on a later day than the one of the warning, WarnSessionEnding has run
\* with its condition true and has sent nothing
C22_SilentOnLaterDay ==
    /\ was_warned
    /\ WarnCondition
    /\ gaming_session[1].start_time >= StartClock + DayLen - (StartClock % DayLen)
    /\ Ran("WarnSessionEnding", "Ok")
    /\ "warning" \notin notified

\* C23 (amended): when RampageMode returns Ok, tracker.kill was called
\* for every record of games_found, whether the session is absent,
\* present and not ended, or ended; when a kill trips the timing guard
\* RampageMode returns that failure and the calls stop there; it returns
\* nothing else, and it sends no notification.
C23_RampageKills ==
    /\ Ran("RampageMode", "Ok") => Killed = Tracked
    /\ Ran("RampageMode", "TamperingDetected") =>
          Killed # {} /\ Killed \subseteq Tracked
    /\ \A i \in DOMAIN executed :
          executed[i].op = "RampageMode" =>
             executed[i].err \in {"Ok", "TamperingDetected"}
    /\ \A k \in kill_calls : k.by = "RampageMode"
    /\ notified = {}

\* RampageMode has returned Ok having called kill for two records while
\* the session is present and not ended
C23_KilledBeforeEnd ==
    /\ Ran("RampageMode", "Ok")
    /\ gaming_session # << >>
    /\ ~SessionEnded
    /\ Cardinality(Killed) = 2

\* C23 as stated: whenever RampageMode has executed in a tick, kill was
\* called for every record of games_found.
C23_EveryTrackedKilled ==
    RanAny("RampageMode") => Killed = Tracked

\* C24: in no state of the loop is WarnSessionEnding registered with a
\* threshold outside [0, 100], that is with a warn-duration below zero or
\* above the budget.
C24_ThresholdInRange ==
    WarnRegistered =>
        /\ 0 <= warn_duration
        /\ warn_duration <= gaming_session[1].duration

\* the parts of s between the occurrences of the character c
RECURSIVE SplitOn(_, _)
SplitOn(s, c) ==
    IF \A i \in DOMAIN s : s[i] # c THEN << s >>
    ELSE LET i == Min({k \in DOMAIN s : s[k] = c})
         IN  << SubSeq(s, 1, i - 1) >> \o SplitOn(SubSeq(s, i + 1, Len(s)), c)

\* w is <n>h, <n>m or <n>s (either case) with n a string of digits
IsUnitToken(w) ==
    /\ Len(w) >= 2
    /\ w[Len(w)] \in {"h", "H", "m", "M", "s", "S"}
    /\ \A i \in 1..(Len(w) - 1) : w[i] \in Digits

\* s is a sequence of unit tokens separated by single spaces
UnitForm(s) == \A i \in DOMAIN SplitOn(s, " ") : IsUnitToken(SplitOn(s, " ")[i])

\* the sum of the values of the tokens of s that carry a unit of units
RECURSIVE UnitSum(_, _)
UnitSum(tokens, units) ==
    IF tokens = << >> THEN 0
    ELSE (IF Head(tokens)[Len(Head(tokens))] \in units
          THEN DigitsValue(SubSeq(Head(tokens), 1, Len(Head(tokens)) - 1), 0)
          ELSE 0) + UnitSum(Tail(tokens), units)

\* C25: a sequence of valid unit tokens separated by spaces parses, and
\* its hours, minutes and seconds are the sums of the values of the tokens
\* of each unit.
C25_DuplicatesAccumulate ==
    (parsed_duration # << >> /\ UnitForm(duration_spec)) =>
        /\ parsed_duration[1].err = "Ok"
        /\ parsed_duration[1].hours = UnitSum(SplitOn(duration_spec, " "), {"h", "H"})
        /\ parsed_duration[1].minutes = UnitSum(SplitOn(duration_spec, " "), {"m", "M"})
        /\ parsed_duration[1].seconds = UnitSum(SplitOn(duration_spec, " "), {"s", "S"})
        /\ to_seconds(parsed_duration[1]) =
             UnitSum(SplitOn(duration_spec, " "), {"h", "H"}) * 3600
             + UnitSum(SplitOn(duration_spec, " "), {"m", "M"}) * 60
             + UnitSum(SplitOn(duration_spec, " "), {"s", "S"})

\* C26: an input that is neither a sequence of unit tokens nor the colon
\* form makes from_str return an error.
C26_MalformedRejected ==
    (/\ parsed_duration # << >>
     /\ ~UnitForm(duration_spec)
     /\ ~ColonForm(duration_spec)) => parsed_duration[1].err # "Ok"

\* the tracked records whose process was sent a kill signal in an earlier
\* tick and is in the snapshot of this tick
Survivors ==
    { p \in Tracked : p.pid \in history.kill_sent
                      /\ p.pid \in DOMAIN system_processes }

\* C27 (amended): SessionEndGameKiller executes in one step that does not
\* read the process table again; when it runs with the session ended and
\* returns Ok, every tracked process that survived an earlier kill signal
\* is sent a kill signal again; it sends none when the notification fails,
\* and none to the records after a kill that trips the timing guard.
C27_KillRetried ==
    [][ (AtSubtask("SessionEndGameKiller") /\ SessionEnded) =>
          /\ UNCHANGED tracker_vars
          /\ Len(executed') = Len(executed) + 1
          /\ pc' \in {"subtasks", "sleep", "returned"}
          /\ executed'[Len(executed')].err = "Ok"
                => \A p \in Survivors : p.pid \in signalled'
          /\ executed'[Len(executed')].err = "NotificationError"
                => signalled' = signalled
      ]_vars

\* a process that was sent a kill signal in an earlier tick is in the
\* snapshot again with the session ended, and has been sent another
C27_SurvivorKilledAgain ==
    /\ Ran("SessionEndGameKiller", "Ok")
    /\ SessionEnded
    /\ \E p \in Survivors : p.pid \in signalled

\* C27 as stated: whenever SessionEndGameKiller has executed with the
\* session ended, every tracked process that survived an earlier kill
\* signal has been sent a kill signal in this tick.
C27_EverySurvivorKilled ==
    (RanAny("SessionEndGameKiller") /\ SessionEnded) =>
        \A p \in Survivors : p.pid \in signalled

\* the strings searched for: the identifiers, and one no identifier has
SearchStrings == KnownIdentifiers \cup { <<"z">>, <<"a", "b">>, <<"b", "a">> }

\* C28: find(s) on a node returns a node iff some node of its subtree has
\* a name or joined command line containing s, and then the first such
\* node in pre-order (a node before its children, children in ascending
\* pid order).
C28_FindPreOrder ==
    \A node \in TreeNodes(process_snapshots) : \A s \in SearchStrings :
        /\ find(node, s) = FirstMatch(node, s)
        /\ (find(node, s) # << >>) <=>
              \E i \in DOMAIN PreOrder(node) : NodeMatches(PreOrder(node)[i], s)

\* find returned a node two levels below the root it was called on
C28_FoundGrandchild ==
    \E n \in DOMAIN process_snapshots :
       \E hit \in {find(process_snapshots[n], GameA)} :
          /\ hit # << >>
          /\ hit[1].pid # n
          /\ hit[1].pid \notin DOMAIN process_snapshots[n].children

\* C29: a process of the snapshot is a root of the tree built from it iff
\* it has no parent pid or its parent pid is init; a process whose parent
\* is init is in the tree once, as a root and under no node, with init
\* itself a root of the tree.
C29_RootIffNoParentOrInit ==
    \A p \in DOMAIN system_processes :
        /\ (p \in DOMAIN process_snapshots) <=>
              (system_processes[p].parent \in {NoPid, InitPid})
        /\ system_processes[p].parent = InitPid =>
              /\ InitPid \in DOMAIN process_snapshots
              /\ Occurrences(process_snapshots, p) = 1
              /\ ~\E q \in DOMAIN system_processes : IsChildOf(process_snapshots, p, q)

\* init is in the tree, a child of init is a root beside it, and another
\* process is attached under that root
C29_InitChildIsRoot ==
    \E p \in DOMAIN system_processes :
        /\ system_processes[p].parent = InitPid
        /\ InitPid \in DOMAIN process_snapshots
        /\ p \in DOMAIN process_snapshots
        /\ process_snapshots[InitPid].children = EmptyTree
        /\ process_snapshots[p].children # EmptyTree

\* configurations of platforms and identifiers find_game is applied to
GameZ == <<"z">>

GameConfigs ==
    { installed_games,
      << [name |-> "p1", games |-> <<GameA>>], [name |-> "p2", games |-> <<GameZ>>] >>,
      << [name |-> "p1", games |-> <<GameZ>>], [name |-> "p2", games |-> <<GameA>>] >>,
      << [name |-> "p1", games |-> <<GameZ, GameB>>] >>,
      << [name |-> "p1", games |-> << >>], [name |-> "p2", games |-> <<GameB, GameZ>>] >> }

\* the (platform, identifier) positions of cfg whose identifier some node
\* of the subtree of node matches
HitPairs(node, cfg) ==
    { x \in UNION { { <<i, j>> : j \in DOMAIN cfg[i].games } : i \in DOMAIN cfg } :
        \E k \in DOMAIN PreOrder(node) :
            NodeMatches(PreOrder(node)[k], cfg[x[1]].games[x[2]]) }

\* platform order, then identifier order
PairLess(x, y) == x[1] < y[1] \/ (x[1] = y[1] /\ x[2] < y[2])

\* C30: find_game returns the hit of the first (platform, identifier)
\* pair, in platform order then identifier order, that some node of the
\* subtree matches, wherever that node sits, and None iff no identifier
\* of any platform matches any node.
C30_FirstPairWins ==
    \A node \in TreeNodes(process_snapshots) : \A cfg \in GameConfigs :
       \A pairs \in {HitPairs(node, cfg)} :
          IF pairs = {} THEN find_game(node, cfg) = << >>
          ELSE \E x \in pairs :
                 /\ \A y \in pairs : y = x \/ PairLess(x, y)
                 /\ find_game(node, cfg) =
                      << [game_name |-> cfg[x[1]].games[x[2]],
                          process |-> FirstMatch(node, cfg[x[1]].games[x[2]])[1]] >>

\* with the identifier a on the first platform and z on the second, the
\* root matches only z, a node below it matches a, and find_game returns
\* a with that node
C30_DeeperFirstIdentifier ==
    \E n \in DOMAIN process_snapshots :
       \E hit \in {find_game(process_snapshots[n],
                       << [name |-> "p1", games |-> <<GameA>>],
                          [name |-> "p2", games |-> <<GameZ>>] >>)} :
          /\ NodeMatches(process_snapshots[n], GameZ)
          /\ ~NodeMatches(process_snapshots[n], GameA)
          /\ hit # << >>
          /\ hit[1].game_name = GameA
          /\ hit[1].process.pid # n

KillerRegistered ==
    \E i \in DOMAIN sub_tasks : sub_tasks[i] = "SessionEndGameKiller"

IsGameProcess(process) ==
    \E id \in KnownIdentifiers : NodeMatches(ProcessInfo_from(process), id)

\* C32: every kill signal sent in a tick reaches a process that a known
\* game identifier matches in the snapshot of that tick.
C32_OnlyGamesKilled ==
    \A pid \in signalled :
        /\ pid \in DOMAIN system_processes
        /\ IsGameProcess(system_processes[pid])

\* the (game, record) pairs of games whose process is not in the snapshot
Exited(games_found, processes) ==
    { x \in TrackedPairs(games_found) : x.proc.pid \notin DOMAIN processes }

\* C33: in every step, every identity in a game's set is still in that
\* game's set afterwards; the record of a process that is not in the new
\* snapshot is kept as it is, and total_time_played still counts its
\* run_time.
C33_GamesOnlyGrow ==
    [][ /\ \A g \in DOMAIN games : \A x \in games[g] :
              /\ g \in DOMAIN games'
              /\ \E y \in games'[g] : ProcessInfo_eq(x, y)
              /\ x.pid \notin DOMAIN system_processes' => x \in games'[g]
        /\ total_time_played(games') >=
              SumRunTime(Exited(games, system_processes'))
      ]_vars

\* after a day rollover a record is still tracked whose process has left
\* the snapshot, and its run_time is counted
C33_ExitedStillCounted ==
    /\ pc # "update"
    /\ gaming_session # << >>
    /\ gaming_session[1].start_time > StartClock
    /\ system_processes = << >>
    /\ Tracked # {}
    /\ TimePlayed > 0

\* the identity (pid, name, cmd) of a record
Identity(x) == <<x.pid, x.name, x.cmd>>

\* C34: no identity (pid, name, cmd) is in the sets of two different
\* games, and games_found holds as many records as identities, so
\* total_time_played counts each identity once.
C34_OneGamePerIdentity ==
    /\ \A g1, g2 \in DOMAIN games :
          g1 # g2 => \A x \in games[g1] : \A y \in games[g2] : ~ProcessInfo_eq(x, y)
    /\ Cardinality(TrackedPairs(games)) =
          Cardinality({ Identity(x.proc) : x \in TrackedPairs(games) })

\* two games each hold a record, and a tracked process matches both
\* identifiers
C34_MatchesBothTrackedOnce ==
    /\ Cardinality({ x.game : x \in TrackedPairs(games) }) = 2
    /\ \E x \in TrackedPairs(games) :
          NodeMatches(x.proc, GameA) /\ NodeMatches(x.proc, GameB)

\* C35: a step taken while a subtask is due runs that subtask and leaves
\* games_found, the session, the snapshot and the snapshot tree as they
\* were, whatever the subtask returns; so does every other step that is
\* not a refresh.
C35_SubtasksLeaveTracker ==
    [][ /\ pc = "subtasks" =>
              /\ UNCHANGED tracker_vars
              /\ Len(executed') = Len(executed) + 1
              /\ executed'[Len(executed')].op = sub_tasks[idx]
        /\ pc # "update" => UNCHANGED tracker_vars
      ]_vars

\* the six subtasks have run in one tick, the last one failing, with the
\* session ended, a row stored and a process signalled
C35_AllSubtasksRan ==
    /\ pc = "returned"
    /\ Len(executed) = 7
    /\ { executed[i].op : i \in 2..7 } =
          {"GamesLogger", "ClockTampering", "SaveStatistics",
           "SessionEndGameKiller", "WarnSessionEnding", "RampageMode"}
    /\ SessionEnded
    /\ db # {}
    /\ signalled # {}

\* C36: a refresh that took more than TamperingLimit whole seconds
\* returns TamperingDetected, one that took no more returns the result of
\* its body (Ok, or the end-of-day failure of the restart); either way
\* games_found, the tree and the session are what the body made them. A
\* kill that took more than TamperingLimit makes the subtask return
\* TamperingDetected with the signal sent; when no kill took that long
\* the subtask does not return TamperingDetected.
C36_TimingGuard ==
    [][ /\ pc = "update" =>
              \A err \in {executed'[1].err} :
              \A found \in {update_running_games(games, ProcessTree_from(system_processes'))} :
                 /\ process_snapshots' = ProcessTree_from(system_processes')
                 /\ games' = found
                 /\ \E valid \in BOOLEAN :
                       \E own \in {refresh_session(gaming_session, total_time_played(found), Now, valid)} :
                          /\ gaming_session' = own.session
                          /\ err = IF history'.refresh_elapsed > TamperingLimit
                                   THEN "TamperingDetected" ELSE own.err
        /\ (AtSubtask("SessionEndGameKiller") \/ AtSubtask("RampageMode")) =>
              \A err \in {executed'[Len(executed')].err} :
                 IF history'.slow_kill # history.slow_kill
                 THEN /\ err = "TamperingDetected"
                      /\ history'.slow_kill[1] \in { k.proc : k \in kill_calls' }
                      /\ history'.slow_kill[1].pid \in DOMAIN system_processes
                            => history'.slow_kill[1].pid \in signalled'
                 ELSE err # "TamperingDetected"
      ]_vars

\* a refresh that took more than TamperingLimit has ended the session and
\* returned TamperingDetected
C36_SlowRefreshEndedSession ==
    /\ history.refresh_elapsed > TamperingLimit
    /\ Ran("refresh", "TamperingDetected")
    /\ history.crossed
    /\ SessionEnded

\* C37: when WarnSessionEnding returns the notification failure, the
\* latch was clear and is set, no warning is shown, and start returns
\* that failure; when it runs with the latch set and a session present it
\* returns Ok, shows nothing, attempts nothing and leaves the latch set;
\* it attempts the warning at most once in a run.
C37_LatchBeforeSend ==
    [][ AtSubtask("WarnSessionEnding") =>
          \A err \in {executed'[Len(executed')].err} :
             /\ err \in {"Ok", "NotificationError"}
             /\ history'.warn_attempts <= 1
             /\ err = "NotificationError" =>
                   /\ gaming_session # << >>
                   /\ ~was_warned
                   /\ was_warned'
                   /\ notified' = notified
                   /\ history'.warn_attempts = 1
                   /\ pc' = "returned"
                   /\ result' = "NotificationError"
             /\ (was_warned /\ gaming_session # << >>) =>
                   /\ err = "Ok"
                   /\ was_warned'
                   /\ notified' = notified
                   /\ history'.warn_attempts = history.warn_attempts
      ]_vars

\* the notification of the warning failed: start has returned the
\* failure with the latch set and nothing shown
C37_FailedWithLatchSet ==
    /\ pc = "returned"
    /\ result = "NotificationError"
    /\ Ran("WarnSessionEnding", "NotificationError")
    /\ was_warned
    /\ "warning" \notin notified
    /\ WarnCondition

====
